---- MODULE Spec2Model ----
(***************************************************************************)
(* Model of jaxnets/models/feedforward.py: StopGradient, Linear, MLP, SCM  *)
(* and GatedNet.  Tensors are sequences of integers (vectors) or sequences *)
(* of rows (matrices); a quotient is an exact rational <<num, den>> in     *)
(* lowest terms.  The state is what a caller holds: one constructed module *)
(* (obj), a second module constructed next to it (twin), the host calls    *)
(* made by the last constructor run (log) and the results of the last      *)
(* calls on the two modules (out1, out2).                                  *)
(***************************************************************************)
EXTENDS Integers, Sequences, FiniteSets, TLC

VARIABLES obj, twin, log, out1, out2

vars == <<obj, twin, log, out1, out2>>

---------------------------------------------------------------------------
\* Bounds of the model.
MaxFeatures == 2
MaxKey == 1

Widths == 1..MaxFeatures
Keys == 0..MaxKey
XVals == {-1, 2}
BiasValues == {0, 3}
InitFns == {"xavier_normal_init", "lecun_normal_init", "trunc_normal_init"}
InitKwargs == {[scale |-> 1], [scale |-> 2]}
Acts == {"identity", "relu"}

\* Python's None, as a width argument.
None == -1

NoObj == [kind |-> "none"]
NoOut == [op |-> "none"]

---------------------------------------------------------------------------
\* Arithmetic helpers.
Abs(n) == IF n < 0 THEN -n ELSE n

RECURSIVE GCD(_, _)
GCD(a, b) == IF b = 0 THEN a ELSE GCD(b, a % b)

\* n / d as an exact rational in lowest terms, d > 0.
Rat(n, d) == LET g == GCD(Abs(n), d) IN <<n \div g, d \div g>>

RECURSIVE SumSeq(_)
SumSeq(s) == IF s = <<>> THEN 0 ELSE Head(s) + SumSeq(Tail(s))

Dot(u, v) == SumSeq([i \in 1..Len(u) |-> u[i] * v[i]])

\* jnp.mean of a vector.
Mean(v) == Rat(SumSeq(v), Len(v))

---------------------------------------------------------------------------
\* Randomness: keys are opaque values; a draw is a fixed function of the key
\* and the position.
InitTag(fn) ==
  CASE fn = "xavier_normal_init" -> 0
    [] fn = "lecun_normal_init" -> 1
    [] fn = "trunc_normal_init" -> 2
    [] OTHER -> 3

Draw(tag, key, i, j) == ((key * 7 + i * 3 + j * 5 + tag * 2 + key * i) % 5) - 2

\* jrandom.split(key, 2)
Split(key) == <<(2 * key + 1) % 7, (2 * key + 2) % 7>>

\* init_fn(existing, key=key, **init_kwargs): a new tensor of existing's shape.
InitFn(fn, existing, key, kwargs) ==
  [i \in 1..Len(existing) |->
    [j \in 1..Len(existing[1]) |-> kwargs.scale * Draw(InitTag(fn), key, i, j)]]

---------------------------------------------------------------------------
\* StopGradient and raw arrays.
Array(a) == [cls |-> "Array", array |-> a]

StopGradient(a) == [cls |-> "StopGradient", array |-> a]

NoneParam == [cls |-> "None"]

\* Reading a StopGradient without the stop_gradient op.
JaxArray_NoStop(p) == [val |-> p.array, flows |-> TRUE]

\* What the host reads from a parameter: its value, and whether gradients
\* flow to it (StopGradient.__jax_array__ applies jax.lax.stop_gradient).
JaxArray(p) ==
  IF p.cls = "StopGradient"
    THEN [val |-> p.array, flows |-> FALSE]
    ELSE [val |-> p.array, flows |-> TRUE]

---------------------------------------------------------------------------
\* Linear.

\* enn.Linear.__init__(in_features, out_features, use_bias, key): the host's
\* default parameters, drawn from the two halves of key.
HostLinear(in_features, out_features, use_bias, key) ==
  LET wkey == Split(key)[1]
      bkey == Split(key)[2]
  IN [in_features |-> in_features,
      out_features |-> out_features,
      use_bias |-> use_bias,
      weight |-> Array([i \in 1..out_features |->
                         [j \in 1..in_features |-> Draw(4, wkey, i, j)]]),
      bias |-> IF use_bias
                 THEN Array([i \in 1..out_features |-> Draw(5, bkey, i, 0)])
                 ELSE NoneParam]

\* The initializer drawing from a generator shared by all constructions: its
\* draw moves on once a module exists.
ReinitWeight_SharedGenerator(weight, key, init_fn, init_kwargs) ==
  LET k == IF obj = NoObj THEN key ELSE key + 1
  IN [param |-> Array(InitFn(init_fn, weight.array, k, init_kwargs)),
      calls |-> <<[op |-> "init_fn", target |-> "weight", fn |-> init_fn,
                   arg |-> weight.cls, key |-> key, kwargs |-> init_kwargs]>>]

\* The initializer given a key derived from key instead of key itself.
ReinitWeight_DerivedKey(weight, key, init_fn, init_kwargs) ==
  LET k == Split(key)[1]
  IN [param |-> Array(InitFn(init_fn, weight.array, k, init_kwargs)),
      calls |-> <<[op |-> "init_fn", target |-> "weight", fn |-> init_fn,
                   arg |-> weight.cls, key |-> k, kwargs |-> init_kwargs]>>]

\* self.weight = init_fn(self.weight, key=key, **init_kwargs)
ReinitWeight(weight, key, init_fn, init_kwargs) ==
  [param |-> Array(InitFn(init_fn, weight.array, key, init_kwargs)),
   calls |-> <<[op |-> "init_fn", target |-> "weight", fn |-> init_fn,
                arg |-> weight.cls, key |-> key, kwargs |-> init_kwargs]>>]

\* The weight wrapped when it is trainable instead of when it is frozen.
WrapWeight_Inverted(weight, weight_trainable) ==
  IF weight_trainable
    THEN [param |-> StopGradient(weight.array),
          calls |-> <<[op |-> "StopGradient", target |-> "weight"]>>]
    ELSE [param |-> weight, calls |-> <<>>]

\* if not weight_trainable: self.weight = StopGradient(self.weight)
WrapWeight(weight, weight_trainable) ==
  IF ~weight_trainable
    THEN [param |-> StopGradient(weight.array),
          calls |-> <<[op |-> "StopGradient", target |-> "weight"]>>]
    ELSE [param |-> weight, calls |-> <<>>]

\* The bias reset to zeros whatever bias_value is.
ReinitBias_Zeros(bias, bias_value) ==
  [param |-> Array([i \in 1..Len(bias.array) |-> 0]),
   calls |-> <<[op |-> "ones_like", target |-> "bias"]>>]

\* self.bias = bias_value * jnp.ones_like(self.bias)
ReinitBias(bias, bias_value) ==
  [param |-> Array([i \in 1..Len(bias.array) |-> bias_value * 1]),
   calls |-> <<[op |-> "ones_like", target |-> "bias"]>>]

\* if not bias_trainable: self.bias = StopGradient(self.bias)
WrapBias(bias, bias_trainable) ==
  IF ~bias_trainable
    THEN [param |-> StopGradient(bias.array),
          calls |-> <<[op |-> "StopGradient", target |-> "bias"]>>]
    ELSE [param |-> bias, calls |-> <<>>]

\* Linear.__init__: the constructed layer (self) and the host calls made, in
\* order (frame).
LinearInit(a) ==
  LET s0 == HostLinear(a.in_features, a.out_features, a.use_bias, a.key)
      c0 == <<[op |-> "super().__init__", key |-> a.key]>>
      w1 == ReinitWeight(s0.weight, a.key, a.init_fn, a.init_kwargs)
      w2 == WrapWeight(w1.param, a.weight_trainable)
      b1 == IF a.use_bias
              THEN ReinitBias(s0.bias, a.bias_value)
              ELSE [param |-> s0.bias, calls |-> <<>>]
      b2 == IF a.use_bias
              THEN WrapBias(b1.param, a.bias_trainable)
              ELSE [param |-> b1.param, calls |-> <<>>]
  IN [self |-> [s0 EXCEPT !.weight = w2.param, !.bias = b2.param],
      frame |-> [key |-> a.key, init_kwargs |-> a.init_kwargs,
                 calls |-> c0 \o w1.calls \o w2.calls \o b1.calls \o b2.calls]]

\* The keyword arguments a caller may pass on to Linear; bias_value is left
\* at its default, 0.0, when the layer has no bias.
LinearKwargs ==
  {kw \in [use_bias : BOOLEAN, weight_trainable : BOOLEAN,
           bias_value : BiasValues, bias_trainable : BOOLEAN,
           init_kwargs : InitKwargs] : kw.use_bias \/ kw.bias_value = 0}

\* Linear(in_features, out_features, key=key, init_fn=init_fn, **kw)
LinearArgs(in_features, out_features, key, init_fn, kw) ==
  [in_features |-> in_features, out_features |-> out_features,
   use_bias |-> kw.use_bias, weight_trainable |-> kw.weight_trainable,
   bias_value |-> kw.bias_value, bias_trainable |-> kw.bias_trainable,
   key |-> key, init_fn |-> init_fn, init_kwargs |-> kw.init_kwargs]

\* Linear.__call__ (inherited): weight @ x + bias.
LinearCall(self, x) ==
  LET W == JaxArray(self.weight).val
  IN [i \in 1..Len(W) |->
       Dot(W[i], x)
         + (IF self.bias.cls # "None" THEN JaxArray(self.bias).val[i] ELSE 0)]

\* The gradient of sum(Linear(x)) with respect to the layer's parameters.
LinearGrad(self, x) ==
  LET W == JaxArray(self.weight)
  IN [weight |-> [i \in 1..Len(W.val) |->
                   [j \in 1..Len(x) |-> IF W.flows THEN x[j] ELSE 0]],
      bias |-> IF self.bias.cls # "None"
                 THEN [i \in 1..Len(W.val) |->
                        IF JaxArray(self.bias).flows THEN 1 ELSE 0]
                 ELSE <<>>]

\* Inputs of a given length.
Inputs(n) == [1..n -> XVals]

---------------------------------------------------------------------------
\* MLP, SCM, GatedNet.

\* A width argument left out of the call.
Omitted == -2

\* The default of MLP's out_features parameter.
MLP_out_features_default == 1

\* Python's `a or b` on width arguments.
PyOr(a, b) == IF a = None \/ a = 0 THEN b ELSE a

\* The hidden width taken from in_features whatever hidden_features is.
HiddenFeatures_Ignored(hidden_features, in_features) == in_features

\* hidden_features = hidden_features or in_features
HiddenFeatures(hidden_features, in_features) == PyOr(hidden_features, in_features)

\* out_features: int | None = 1, then out_features = out_features or in_features
OutFeatures(out_features, in_features) ==
  PyOr(IF out_features = Omitted THEN MLP_out_features_default ELSE out_features,
       in_features)

\* An activation, applied elementwise.
Act(act, v) ==
  [i \in 1..Len(v) |->
    CASE act = "identity" -> v[i]
      [] act = "relu" -> IF v[i] > 0 THEN v[i] ELSE 0
      [] OTHER -> v[i]]

\* MLP.__init__
MLPInit(a) ==
  LET out_features == OutFeatures(a.out_features, a.in_features)
      hidden_features == HiddenFeatures(a.hidden_features, a.in_features)
      key1 == Split(a.key)[1]
      key2 == Split(a.key)[2]
      fc1 == LinearInit(LinearArgs(a.in_features, hidden_features, key1,
                                   a.init_fn, a.kw))
      fc2 == LinearInit(LinearArgs(hidden_features, out_features, key2,
                                   a.init_fn, a.kw))
  IN [self |-> [fc1 |-> fc1.self, act |-> a.act, fc2 |-> fc2.self,
                num_hiddens |-> hidden_features],
      frames |-> <<fc1.frame, fc2.frame>>]

\* MLP.forward_pass without the division by the hidden width.
MLP_forward_pass_Unscaled(self, x) ==
  LET preact == LinearCall(self.fc1, x)
      h == Act(self.act, preact)
      z == LinearCall(self.fc2, h)
      y == [k \in 1..Len(z) |-> Rat(z[k], 1)]
  IN <<y, preact>>

\* MLP.forward_pass
MLP_forward_pass(self, x) ==
  LET preact == LinearCall(self.fc1, x)
      h == Act(self.act, preact)
      z == LinearCall(self.fc2, h)
      y == [k \in 1..Len(z) |-> Rat(z[k], self.num_hiddens)]
  IN <<y, preact>>

\* MLP.__call__
MLP_call(self, x) == MLP_forward_pass(self, x)[1]

\* SCM.__init__
SCMInit(a) ==
  LET hidden_features == HiddenFeatures(a.hidden_features, a.in_features)
      fc1 == LinearInit(LinearArgs(a.in_features, hidden_features, a.key,
                                   a.init_fn, a.kw))
  IN [self |-> [fc1 |-> fc1.self, act |-> a.act],
      frames |-> <<fc1.frame>>]

\* SCM.forward_pass pooling with a sum instead of a mean.
SCM_forward_pass_Sum(self, x) ==
  LET preact == LinearCall(self.fc1, x)
      h == Act(self.act, preact)
  IN <<Rat(SumSeq(h), 1), preact>>

\* SCM.forward_pass
SCM_forward_pass(self, x) ==
  LET preact == LinearCall(self.fc1, x)
      h == Act(self.act, preact)
  IN <<Mean(h), preact>>

\* SCM.__call__
SCM_call(self, x) == SCM_forward_pass(self, x)[1]

\* The default gate, lambda x: 1. : a scalar.
DefaultGate == [fn |-> "default", n |-> 0]

\* A caller's gate returning one 0/1 entry per hidden unit of an n-unit layer.
StepGate(n) == [fn |-> "step", n |-> n]

\* gate(x): the tensor the gate returns, as its shape and its entries.
Gate(gate, x) ==
  IF gate.fn = "default"
    THEN [shape |-> <<>>, data |-> <<1>>]
    ELSE [shape |-> <<gate.n>>,
          data |-> [i \in 1..gate.n |->
                     IF x[((i - 1) % Len(x)) + 1] > 0 THEN 1 ELSE 0]]

\* gates * preacts, the host's broadcasting product.
Mul(gates, preacts) ==
  [i \in 1..Len(preacts) |->
    (IF gates.shape = <<>> THEN gates.data[1] ELSE gates.data[i]) * preacts[i]]

\* GatedNet.__init__
GatedNetInit(a) ==
  LET hidden_features == HiddenFeatures(a.hidden_features, a.in_features)
      fc1 == LinearInit(LinearArgs(a.in_features, hidden_features, a.key,
                                   a.init_fn, a.kw))
  IN [self |-> [fc1 |-> fc1.self, gate |-> a.gate],
      frames |-> <<fc1.frame>>]

\* GatedNet.forward_pass pooling with a sum instead of a mean.
GatedNet_forward_pass_Sum(self, x) ==
  LET preacts == LinearCall(self.fc1, x)
      gates == Gate(self.gate, x)
      postacts == Mul(gates, preacts)
  IN <<Rat(SumSeq(postacts), 1), preacts, gates, postacts>>

\* GatedNet.forward_pass
GatedNet_forward_pass(self, x) ==
  LET preacts == LinearCall(self.fc1, x)
      gates == Gate(self.gate, x)
      postacts == Mul(gates, preacts)
  IN <<Mean(postacts), preacts, gates, postacts>>

\* GatedNet.__call__
GatedNet_call(self, x) == GatedNet_forward_pass(self, x)[1]

---------------------------------------------------------------------------
\* The caller: constructions and calls.

\* The arguments of an MLP, SCM or GatedNet constructor call.
MLPArgs ==
  [in_features : Widths, hidden_features : {None} \cup Widths,
   out_features : {Omitted, None} \cup Widths, act : Acts, key : Keys,
   init_fn : InitFns, kw : LinearKwargs]

SCMArgs ==
  [in_features : Widths, hidden_features : {None} \cup Widths, act : Acts,
   key : Keys, init_fn : InitFns, kw : LinearKwargs]

GatedNetArgs ==
  [in_features : Widths, hidden_features : {None} \cup Widths,
   gate : {DefaultGate} \cup {StepGate(n) : n \in Widths}, key : Keys,
   init_fn : InitFns, kw : LinearKwargs]

\* A constructor call by class name: the module built and the frames of the
\* Linear constructors it ran.
Build(kind, a) ==
  CASE kind = "Linear" ->
         LET r == LinearInit(a) IN [self |-> r.self, frames |-> <<r.frame>>]
    [] kind = "MLP" -> MLPInit(a)
    [] kind = "SCM" -> SCMInit(a)
    [] kind = "GatedNet" -> GatedNetInit(a)

\* A method call by class and method name.
Invoke(kind, self, op, x) ==
  CASE kind = "Linear" /\ op = "__call__" -> LinearCall(self, x)
    [] kind = "Linear" /\ op = "grad" -> LinearGrad(self, x)
    [] kind = "MLP" /\ op = "forward_pass" -> MLP_forward_pass(self, x)
    [] kind = "MLP" /\ op = "__call__" -> MLP_call(self, x)
    [] kind = "SCM" /\ op = "forward_pass" -> SCM_forward_pass(self, x)
    [] kind = "SCM" /\ op = "__call__" -> SCM_call(self, x)
    [] kind = "GatedNet" /\ op = "forward_pass" -> GatedNet_forward_pass(self, x)
    [] kind = "GatedNet" /\ op = "__call__" -> GatedNet_call(self, x)

Init ==
  /\ obj = NoObj
  /\ twin = NoObj
  /\ log = <<>>
  /\ out1 = NoOut
  /\ out2 = NoOut

\* The caller constructs its first module and keeps it as obj.
Construct(kind, a) ==
  LET r == Build(kind, a)
  IN /\ obj' = [kind |-> kind, args |-> a, self |-> r.self]
     /\ log' = r.frames
     /\ twin' = NoObj
     /\ out1' = NoOut
     /\ out2' = NoOut

\* The caller constructs a second module and keeps it as twin.
ConstructTwin(kind, a) ==
  LET r == Build(kind, a)
  IN /\ twin' = [kind |-> kind, args |-> a, self |-> r.self]
     /\ log' = r.frames
     /\ out2' = NoOut
     /\ UNCHANGED <<obj, out1>>

ConstructLinear ==
  /\ obj = NoObj
  /\ \E i \in Widths, o \in Widths, key \in Keys, fn \in InitFns, kw \in LinearKwargs :
       Construct("Linear", LinearArgs(i, o, key, fn, kw))

ConstructMLP ==
  /\ obj = NoObj
  /\ \E a \in MLPArgs : Construct("MLP", a)

ConstructSCM ==
  /\ obj = NoObj
  /\ \E a \in SCMArgs : Construct("SCM", a)

\* A caller's gate is built for the hidden width of the net it is passed to.
ConstructGatedNet ==
  /\ obj = NoObj
  /\ \E a \in GatedNetArgs :
       /\ a.gate.fn = "default"
          \/ a.gate.n = HiddenFeatures(a.hidden_features, a.in_features)
       /\ Construct("GatedNet", a)

\* The same constructor call again, with the same key and arguments.
Reconstruct ==
  /\ obj # NoObj
  /\ ConstructTwin(obj.kind, obj.args)

\* A Linear with obj's key and arguments, but other trainability flags.
ConstructRetrained ==
  /\ obj.kind = "Linear"
  /\ \E wt \in BOOLEAN, bt \in BOOLEAN :
       /\ <<wt, bt>> # <<obj.args.weight_trainable, obj.args.bias_trainable>>
       /\ ConstructTwin("Linear", [obj.args EXCEPT !.weight_trainable = wt,
                                                   !.bias_trainable = bt])

\* An SCM with the key and the Linear arguments of the GatedNet obj.
ConstructSCMTwin ==
  /\ obj.kind = "GatedNet"
  /\ \E act \in Acts :
       ConstructTwin("SCM", [in_features |-> obj.args.in_features,
                             hidden_features |-> obj.args.hidden_features,
                             act |-> act, key |-> obj.args.key,
                             init_fn |-> obj.args.init_fn, kw |-> obj.args.kw])

\* A method of obj is called on an input of its in_features entries; a run
\* of the caller makes one such call.
CallObj(kind, op) ==
  /\ obj.kind = kind
  /\ out1 = NoOut
  /\ \E x \in Inputs(obj.args.in_features) :
       out1' = [op |-> op, x |-> x, ret |-> Invoke(kind, obj.self, op, x)]
  /\ out2' = NoOut
  /\ UNCHANGED <<obj, twin, log>>

ApplyLinear == CallObj("Linear", "__call__")

DifferentiateLinear == CallObj("Linear", "grad")

ForwardPassMLP == CallObj("MLP", "forward_pass")

CallMLP == CallObj("MLP", "__call__")

ForwardPassSCM == CallObj("SCM", "forward_pass")

CallSCM == CallObj("SCM", "__call__")

ForwardPassGatedNet == CallObj("GatedNet", "forward_pass")

CallGatedNet == CallObj("GatedNet", "__call__")

\* The method last called on obj is called on twin, on the same input.
RepeatOnTwin ==
  /\ twin # NoObj
  /\ out1 # NoOut
  /\ out2' = [op |-> out1.op, x |-> out1.x,
              ret |-> Invoke(twin.kind, twin.self, out1.op, out1.x)]
  /\ UNCHANGED <<obj, twin, log, out1>>

Next ==
  \/ ConstructLinear
  \/ ConstructMLP
  \/ ConstructSCM
  \/ ConstructGatedNet
  \/ Reconstruct
  \/ ConstructRetrained
  \/ ConstructSCMTwin
  \/ ApplyLinear
  \/ DifferentiateLinear
  \/ ForwardPassMLP
  \/ CallMLP
  \/ ForwardPassSCM
  \/ CallSCM
  \/ ForwardPassGatedNet
  \/ CallGatedNet
  \/ RepeatOnTwin

Spec == Init /\ [][Next]_vars

\* Construction only.
NextBuild ==
  \/ ConstructLinear
  \/ ConstructMLP
  \/ ConstructSCM
  \/ ConstructGatedNet
  \/ Reconstruct
  \/ ConstructRetrained
  \/ ConstructSCMTwin

SpecBuild == Init /\ [][NextBuild]_vars

\* Linear layers and their calls.
NextLinear ==
  \/ ConstructLinear
  \/ Reconstruct
  \/ ConstructRetrained
  \/ ApplyLinear
  \/ DifferentiateLinear
  \/ RepeatOnTwin

SpecLinear == Init /\ [][NextLinear]_vars

\* An MLP and its calls.
NextMLP ==
  \/ ConstructMLP
  \/ ForwardPassMLP
  \/ CallMLP

SpecMLP == Init /\ [][NextMLP]_vars

\* An SCM and its calls.
NextSCM ==
  \/ ConstructSCM
  \/ ForwardPassSCM
  \/ CallSCM

SpecSCM == Init /\ [][NextSCM]_vars

\* A GatedNet, an SCM built beside it, and their calls.
NextGated ==
  \/ ConstructGatedNet
  \/ ConstructSCMTwin
  \/ ForwardPassGatedNet
  \/ CallGatedNet
  \/ RepeatOnTwin

SpecGated == Init /\ [][NextGated]_vars

---------------------------------------------------------------------------
\* Claims.

\* The rational q (a pair in lowest terms or not) equals n / d.
IsQuotient(q, n, d) == q[2] > 0 /\ q[1] * d = n * q[2]

\* C1: for every constructed MLP and input x, forward_pass(x) returns
\* (y, preact) with preact = fc1(x) and y = fc2(act(preact)) / num_hiddens,
\* where num_hiddens is the out_features of fc1 and the in_features of fc2;
\* __call__(x) returns that y alone.
C1_MLPForward ==
  (obj.kind = "MLP" /\ out1 # NoOut) =>
    LET fc1 == obj.self.fc1
        fc2 == obj.self.fc2
        H == fc1.out_features
        preact == LinearCall(fc1, out1.x)
        z == LinearCall(fc2, Act(obj.self.act, preact))
        y == IF out1.op = "forward_pass" THEN out1.ret[1] ELSE out1.ret
    IN /\ obj.self.num_hiddens = H
       /\ fc2.in_features = H
       /\ out1.op = "forward_pass" => Len(out1.ret) = 2 /\ out1.ret[2] = preact
       /\ Len(y) = fc2.out_features
       /\ \A k \in 1..Len(y) : IsQuotient(y[k], z[k], H)

\* An MLP with two hidden units was run and its output is a proper fraction
\* with denominator 2.
C1_Witness ==
  /\ obj.kind = "MLP"
  /\ out1.op = "forward_pass"
  /\ obj.self.num_hiddens = 2
  /\ obj.self.act = "relu"
  /\ out1.ret[1][1][2] = 2

\* C2: for every constructed SCM and input x, forward_pass(x) returns
\* (y, preact) with preact = fc1(x) and y the sum of act(preact) divided by
\* the hidden width; __call__(x) returns that y.
C2_SCMForward ==
  (obj.kind = "SCM" /\ out1 # NoOut) =>
    LET fc1 == obj.self.fc1
        preact == LinearCall(fc1, out1.x)
        h == Act(obj.self.act, preact)
        y == IF out1.op = "forward_pass" THEN out1.ret[1] ELSE out1.ret
    IN /\ out1.op = "forward_pass" => Len(out1.ret) = 2 /\ out1.ret[2] = preact
       /\ Len(h) = fc1.out_features
       /\ IsQuotient(y, SumSeq(h), fc1.out_features)

\* An SCM with two hidden units was run and its mean is not an integer.
C2_Witness ==
  /\ obj.kind = "SCM"
  /\ out1.op = "__call__"
  /\ obj.self.fc1.out_features = 2
  /\ obj.self.act = "relu"
  /\ out1.ret[2] = 2

\* C3: a GatedNet with the default gate and an SCM with the identity
\* activation that hold identical fc1 parameters return the same y and the
\* same pre-activations on every input.
C3_GatedEqualsSCM ==
  ( /\ obj.kind = "GatedNet" /\ obj.self.gate = DefaultGate
    /\ twin.kind = "SCM" /\ twin.self.act = "identity"
    /\ obj.self.fc1 = twin.self.fc1
    /\ out1 # NoOut /\ out2 # NoOut ) =>
      /\ out2.op = out1.op /\ out2.x = out1.x
      /\ out1.op = "forward_pass" =>
           out1.ret[1] = out2.ret[1] /\ out1.ret[2] = out2.ret[2]
      /\ out1.op = "__call__" => out1.ret = out2.ret

\* A default-gate GatedNet and an identity SCM with the same two-unit fc1
\* were run on the same input and returned a non-zero y.
C3_Witness ==
  /\ obj.kind = "GatedNet" /\ obj.self.gate = DefaultGate
  /\ twin.kind = "SCM" /\ twin.self.act = "identity"
  /\ obj.self.fc1 = twin.self.fc1
  /\ obj.self.fc1.out_features = 2
  /\ out1.op = "forward_pass" /\ out2.op = "forward_pass"
  /\ out2.ret[1][1] # 0

\* C4: for every constructed GatedNet, the default-gate one included,
\* forward_pass(x) returns (y, preacts, gates, postacts) where preacts =
\* fc1(x), gates = gate(x) has the shape of preacts (one entry per hidden
\* unit), postacts is the elementwise product and y is the mean of postacts.
C4_GatedForward ==
  (obj.kind = "GatedNet" /\ out1.op = "forward_pass") =>
    LET preacts == LinearCall(obj.self.fc1, out1.x)
        gates == out1.ret[3]
        postacts == out1.ret[4]
    IN /\ Len(out1.ret) = 4
       /\ out1.ret[2] = preacts
       /\ gates = Gate(obj.self.gate, out1.x)
       /\ gates.shape = <<Len(preacts)>>
       /\ Len(postacts) = Len(preacts)
       /\ \A i \in 1..Len(preacts) : postacts[i] = gates.data[i] * preacts[i]
       /\ IsQuotient(out1.ret[1], SumSeq(postacts), Len(postacts))

\* The Linear layers the caller holds, each with its constructor arguments.
HeldLinears == {o \in {obj, twin} : o.kind = "Linear"}

C6_FrozenWeight ==
  ( /\ obj.kind = "Linear" /\ twin.kind = "Linear"
    /\ obj.self.weight.array = twin.self.weight.array
    /\ obj.self.bias.cls = "None" <=> twin.self.bias.cls = "None"
    /\ obj.self.bias.cls # "None" => obj.self.bias.array = twin.self.bias.array
    /\ obj.args.weight_trainable # twin.args.weight_trainable
    /\ out1 # NoOut /\ out2 # NoOut ) =>
      LET frozen == IF obj.args.weight_trainable THEN twin ELSE obj
          fout == IF obj.args.weight_trainable THEN out2 ELSE out1
      IN /\ out2.op = out1.op /\ out2.x = out1.x
         /\ out1.op = "__call__" => out1.ret = out2.ret
         /\ out1.op = "grad" =>
              \A i \in 1..Len(fout.ret.weight) :
                \A j \in 1..Len(fout.ret.weight[i]) : fout.ret.weight[i][j] = 0
         /\ frozen.self.weight.cls = "StopGradient"
         /\ JaxArray(frozen.self.weight).val = frozen.self.weight.array

\* A frozen layer and its trainable copy were differentiated on the same
\* input: the trainable one has a non-zero weight gradient.
C6_Witness ==
  /\ obj.kind = "Linear" /\ twin.kind = "Linear"
  /\ ~obj.args.weight_trainable /\ twin.args.weight_trainable
  /\ obj.self.weight.array = twin.self.weight.array
  /\ out1.op = "grad" /\ out2.op = "grad"
  /\ out2.ret.weight[1][1] # 0
  /\ out1.ret.weight[1][1] = 0

\* C7: after Linear construction the weight is StopGradient-wrapped iff
\* weight_trainable is false, the bias is StopGradient-wrapped iff use_bias
\* is true and bias_trainable is false, and without use_bias there is no
\* bias and no wrapper.
C7_WrapIffFrozen ==
  \A o \in HeldLinears :
    /\ o.self.weight.cls = "StopGradient" <=> ~o.args.weight_trainable
    /\ o.self.weight.cls = "Array" <=> o.args.weight_trainable
    /\ o.self.bias.cls = "StopGradient" <=> (o.args.use_bias /\ ~o.args.bias_trainable)
    /\ o.self.bias.cls = "Array" <=> (o.args.use_bias /\ o.args.bias_trainable)
    /\ o.self.bias.cls = "None" <=> ~o.args.use_bias

\* Two layers from the same key are held, one with the weight frozen and the
\* bias trainable, the other the opposite.
C7_Witness ==
  /\ obj.kind = "Linear" /\ twin.kind = "Linear"
  /\ obj.self.weight.cls = "StopGradient" /\ obj.self.bias.cls = "Array"
  /\ twin.self.weight.cls = "Array" /\ twin.self.bias.cls = "StopGradient"

AskedHidden(a) ==
  IF a.hidden_features = None THEN a.in_features ELSE a.hidden_features

\* The output width a caller of MLP asked for.
AskedOut(a) ==
  IF a.out_features = Omitted THEN 1
  ELSE IF a.out_features = None THEN a.in_features
  ELSE a.out_features

CallsAt(frame, op) == {i \in 1..Len(frame.calls) : frame.calls[i].op = op}

\* C10: a Linear constructor first runs the host's default construction on
\* its key, then calls the initializer exactly once, on the default (raw)
\* weight, with that same key and the caller's keyword arguments, and only
\* then wraps the weight; the initializer is never called on the bias.
C10_InitOrder ==
  /\ \A n \in 1..Len(log) :
       LET f == log[n]
       IN /\ Len(f.calls) >= 2
          /\ f.calls[1] = [op |-> "super().__init__", key |-> f.key]
          /\ CallsAt(f, "super().__init__") = {1}
          /\ CallsAt(f, "init_fn") = {2}
          /\ f.calls[2].target = "weight"
          /\ f.calls[2].arg = "Array"
          /\ f.calls[2].key = f.key
          /\ f.calls[2].kwargs = f.init_kwargs
          /\ \A i \in CallsAt(f, "StopGradient") : i > 2
  /\ (obj.kind = "Linear" /\ Len(log) = 1) =>
       /\ log[1].key = obj.args.key
       /\ log[1].init_kwargs = obj.args.init_kwargs
       /\ log[1].calls[2].fn = obj.args.init_fn

\* A Linear with a frozen weight and a frozen bias was built with a
\* non-default scale: host construction, initializer, wrap, bias, wrap.
C10_Witness ==
  /\ obj.kind = "Linear" /\ twin = NoObj
  /\ Len(log) = 1
  /\ Len(log[1].calls) = 5
  /\ log[1].calls[3] = [op |-> "StopGradient", target |-> "weight"]
  /\ obj.args.init_kwargs.scale = 2
  /\ obj.args.key = 1

====
